---- MODULE Spec2Model ----
(***************************************************************************)
(* Model of the mail migration engine of bwaide/MailMigration              *)
(* (src/migrate.py, src/attachments.py).                                   *)
(*                                                                         *)
(* Strings of the program are sequences of one-character strings, so that  *)
(* replace, lstrip, count, upper and the folder-name codec are computed    *)
(* character by character as the code does.  Python's None is the empty    *)
(* sequence <<>> and a present value v of an optional is <<v>>.            *)
(***************************************************************************)
EXTENDS Integers, Naturals, Sequences, FiniteSets, TLC

(***************************************************************************)
(* Bounds of the model (not program constants).                            *)
(***************************************************************************)
NumMsgs == 4          \* messages in the source folder (len(msg_nums))
MaxFaults == 2        \* weight of the faults in a behaviour (see Fault)
MaxRetries == 5       \* largest max_retries reconnect_imap is called with
MaxNameLen == 3       \* characters of a folder name given to the codec
MaxLabels == 3        \* labels of a message
LoopMsgs == 201       \* messages in the folder of the message loop taken alone
MaxParts == 3         \* leaves of a multi-part message given to the attachment engine
MaxSaves == 3         \* calls of save_attachment on one external storage
CurrentTime == 9      \* the instant time.gmtime() returns, after every receipt

(***************************************************************************)
(* String helpers (str methods used by the code).                          *)
(***************************************************************************)
None == <<>>
Some(v) == <<v>>

IsPrefix(p, s) == Len(p) <= Len(s) /\ SubSeq(s, 1, Len(p)) = p

RECURSIVE Replace(_, _, _)
\* str.replace(old, new): left to right, non-overlapping
Replace(s, old, new) ==
    IF s = <<>> THEN <<>>
    ELSE IF IsPrefix(old, s)
         THEN new \o Replace(SubSeq(s, Len(old) + 1, Len(s)), old, new)
         ELSE <<Head(s)>> \o Replace(Tail(s), old, new)

RECURSIVE LStrip(_, _)
\* str.lstrip(chars)
LStrip(s, chars) ==
    IF s # <<>> /\ Head(s) \in chars THEN LStrip(Tail(s), chars) ELSE s

RECURSIVE Count(_, _)
\* str.count(c) for a single character c
Count(s, c) ==
    IF s = <<>> THEN 0
    ELSE (IF Head(s) = c THEN 1 ELSE 0) + Count(Tail(s), c)

LowerChars == <<"a","b","c","d","e","f","g","h","i","j","k","l","m",
                "n","o","p","q","r","s","t","u","v","w","x","y","z">>
UpperChars == <<"A","B","C","D","E","F","G","H","I","J","K","L","M",
                "N","O","P","Q","R","S","T","U","V","W","X","Y","Z">>

UpperChar(c) ==
    IF \E k \in 1..26 : LowerChars[k] = c
    THEN UpperChars[CHOOSE k \in 1..26 : LowerChars[k] = c]
    ELSE c

\* str.upper()
Upper(s) == [k \in 1..Len(s) |-> UpperChar(s[k])]

Contains(seq, x) == \E k \in 1..Len(seq) : seq[k] = x

(***************************************************************************)
(* String literals of the program and of the modelled configuration.       *)
(***************************************************************************)
sGmail == <<"[","G","m","a","i","l","]">>
sGmailSlash == sGmail \o <<"/">>
sInbox == <<"I","n","b","o","x">>
sGmailInbox == sGmailSlash \o sInbox
sINBOX == <<"I","N","B","O","X">>
sTrash == <<"T","r","a","s","h">>
sWork == <<"W","o","r","k">>
sJobs == <<"J","o","b","s">>
sTax == <<"T","a","x">>
sFin == <<"F","i","n">>
sReports == <<"R","e","p","o","r","t","s">>
sWorkReports == sWork \o <<"/">> \o sReports
sStarred == <<"S","t","a","r","r","e","d">>
sImportant == <<"I","m","p","o","r","t","a","n","t">>
sMyMail == <<"M","y"," ","M","a","i","l">>
sBackslash == "\\"

\* config "mapping"/"folder_mapping" (default {}): the modelled config.json
\* maps Trash to null and Work to Jobs
FOLDER_MAPPING == (sTrash :> None) @@ (sWork :> Some(sJobs)) @@ (sTax :> Some(sFin))
DEFAULT_ARCHIVE_FOLDER == <<"A","r","c","h","i","v","e">>
FOLDER_PREFIX == sINBOX \o <<".">>
ROOT_FOLDER == sGmailSlash \o <<"A","l","l"," ","M","a","i","l">>
LABELS_AS_FLAGGED == {sImportant, sGmailSlash \o sImportant,
                      sStarred, sGmailSlash \o sStarred}

(***************************************************************************)
(* Label Mapping Engine.                                                   *)
(***************************************************************************)
translate_labels_to_flags(gmail_labels) ==
    IF \E k \in 1..Len(gmail_labels) : gmail_labels[k] \in LABELS_AS_FLAGGED
    THEN <<"\\Flagged">>
    ELSE <<>>

clean_gmail_label(label) ==
    LStrip(Replace(label, sGmailSlash, <<>>), {sBackslash})

\* variant: on a tie the last label in input order
deepest_last_on_tie(cleaned_labels) ==
    LET best == CHOOSE k \in 1..Len(cleaned_labels) :
                  /\ \A j \in 1..Len(cleaned_labels) :
                        Count(cleaned_labels[j], "/") <= Count(cleaned_labels[k], "/")
                  /\ \A j \in (k + 1)..Len(cleaned_labels) :
                        Count(cleaned_labels[j], "/") < Count(cleaned_labels[k], "/")
    IN  cleaned_labels[best]

\* sorted(cleaned_labels, key=count("/"), reverse=True)[0]: the sort is
\* stable, so the first label in input order with the largest count
deepest(cleaned_labels) ==
    LET best == CHOOSE k \in 1..Len(cleaned_labels) :
                  /\ \A j \in 1..Len(cleaned_labels) :
                        Count(cleaned_labels[j], "/") <= Count(cleaned_labels[k], "/")
                  /\ \A j \in 1..(k - 1) :
                        Count(cleaned_labels[j], "/") < Count(cleaned_labels[k], "/")
    IN  cleaned_labels[best]

\* the value of the first cleaned label, in input order, that is a key of
\* FOLDER_MAPPING (the loop returns at the first key found)
first_mapped(cleaned_labels) ==
    LET hit == CHOOSE k \in 1..Len(cleaned_labels) :
                 /\ cleaned_labels[k] \in DOMAIN FOLDER_MAPPING
                 /\ \A j \in 1..(k - 1) : cleaned_labels[j] \notin DOMAIN FOLDER_MAPPING
    IN  FOLDER_MAPPING[cleaned_labels[hit]]

\* variant: a null table value falls through to the depth rule
map_labels_null_falls_through(gmail_labels) ==
    LET cleaned_labels == [k \in 1..Len(gmail_labels) |-> clean_gmail_label(gmail_labels[k])]
    IN  IF Contains(gmail_labels, sGmail) THEN None
        ELSE IF \/ Contains(gmail_labels, sGmailInbox)
                \/ \E k \in 1..Len(gmail_labels) : Upper(cleaned_labels[k]) = sINBOX
             THEN Some(sINBOX)
        ELSE IF /\ \E k \in 1..Len(cleaned_labels) : cleaned_labels[k] \in DOMAIN FOLDER_MAPPING
                /\ first_mapped(cleaned_labels) # None
             THEN first_mapped(cleaned_labels)
        ELSE IF cleaned_labels # <<>>
             THEN Some(Replace(FOLDER_PREFIX \o deepest(cleaned_labels), <<"/">>, <<".">>))
        ELSE Some(DEFAULT_ARCHIVE_FOLDER)

\* variant: the mapping table is looked up before the inbox rule
map_labels_table_before_inbox(gmail_labels) ==
    LET cleaned_labels == [k \in 1..Len(gmail_labels) |-> clean_gmail_label(gmail_labels[k])]
    IN  IF Contains(gmail_labels, sGmail) THEN None
        ELSE IF \E k \in 1..Len(cleaned_labels) : cleaned_labels[k] \in DOMAIN FOLDER_MAPPING
             THEN first_mapped(cleaned_labels)
        ELSE IF \/ Contains(gmail_labels, sGmailInbox)
                \/ \E k \in 1..Len(gmail_labels) : Upper(cleaned_labels[k]) = sINBOX
             THEN Some(sINBOX)
        ELSE IF cleaned_labels # <<>>
             THEN Some(Replace(FOLDER_PREFIX \o deepest(cleaned_labels), <<"/">>, <<".">>))
        ELSE Some(DEFAULT_ARCHIVE_FOLDER)

map_labels_to_destination(gmail_labels) ==
    LET cleaned_labels == [k \in 1..Len(gmail_labels) |-> clean_gmail_label(gmail_labels[k])]
    IN  IF Contains(gmail_labels, sGmail) THEN None
        ELSE IF \/ Contains(gmail_labels, sGmailInbox)
                \/ \E k \in 1..Len(gmail_labels) : Upper(cleaned_labels[k]) = sINBOX
             THEN Some(sINBOX)
        ELSE IF \E k \in 1..Len(cleaned_labels) : cleaned_labels[k] \in DOMAIN FOLDER_MAPPING
             THEN first_mapped(cleaned_labels)
        ELSE IF cleaned_labels # <<>>
             THEN Some(Replace(FOLDER_PREFIX \o deepest(cleaned_labels), <<"/">>, <<".">>))
        ELSE Some(DEFAULT_ARCHIVE_FOLDER)

(***************************************************************************)
(* Folder-Name Codec (encoding direction).                                 *)
(***************************************************************************)
\* characters above U+007F are named by their code point
NonAsciiCode == ("U+00E9" :> 233) @@ ("U+00FC" :> 252) @@ ("U+20AC" :> 8364)
IsNonAscii(c) == c \in DOMAIN NonAsciiCode
\* characters above U+FFFF, which the pattern [\u0080-\uffff] does not match
AstralChars == {"U+1F600"}
\* ord(char) > 127
IsAbove127(c) == IsNonAscii(c) \/ c \in AstralChars

B64Alphabet == UpperChars \o LowerChars
               \o <<"0","1","2","3","4","5","6","7","8","9","+","/">>
B64Char(n) == B64Alphabet[n + 1]

RECURSIVE Utf16BE(_)
\* str.encode('utf-16-be') of a run of BMP characters
Utf16BE(run) ==
    IF run = <<>> THEN <<>>
    ELSE <<NonAsciiCode[Head(run)] \div 256, NonAsciiCode[Head(run)] % 256>>
         \o Utf16BE(Tail(run))

RECURSIVE B64Encode(_)
\* base64.b64encode(b) with the '=' padding already stripped (rstrip('='))
B64Encode(b) ==
    IF b = <<>> THEN <<>>
    ELSE IF Len(b) = 1 THEN
        LET n == b[1] * 65536
        IN  <<B64Char(n \div 262144), B64Char((n \div 4096) % 64)>>
    ELSE IF Len(b) = 2 THEN
        LET n == b[1] * 65536 + b[2] * 256
        IN  <<B64Char(n \div 262144), B64Char((n \div 4096) % 64),
              B64Char((n \div 64) % 64)>>
    ELSE
        LET n == b[1] * 65536 + b[2] * 256 + b[3]
        IN  <<B64Char(n \div 262144), B64Char((n \div 4096) % 64),
              B64Char((n \div 64) % 64), B64Char(n % 64)>>
            \o B64Encode(SubSeq(b, 4, Len(b)))

RECURSIVE NonAsciiRun(_)
\* the longest prefix of s made of characters in [\u0080-￿]
NonAsciiRun(s) ==
    IF s # <<>> /\ IsNonAscii(Head(s)) THEN <<Head(s)>> \o NonAsciiRun(Tail(s)) ELSE <<>>

encode_match(text) ==
    <<"&">> \o Replace(B64Encode(Utf16BE(text)), <<"/">>, <<",">>) \o <<"-">>

RECURSIVE EncodeRuns(_)
\* re.sub(r'([\u0080-￿]+)', encode_match, s)
EncodeRuns(s) ==
    IF s = <<>> THEN <<>>
    ELSE IF IsNonAscii(Head(s))
         THEN LET run == NonAsciiRun(s)
              IN  encode_match(run) \o EncodeRuns(SubSeq(s, Len(run) + 1, Len(s)))
         ELSE <<Head(s)>> \o EncodeRuns(Tail(s))

encode_imap_utf7(s) ==
    LET encoded == EncodeRuns(Replace(s, <<"&">>, <<"&", "-">>))
    IN  IF Contains(encoded, " ") \/ \E k \in 1..Len(encoded) : IsAbove127(encoded[k])
        THEN <<"\"">> \o encoded \o <<"\"">>
        ELSE encoded

\* variant: the path separator is left as it is
encode_folder_keeps_separator(name) == encode_imap_utf7(name)

encode_folder(name) == Replace(encode_imap_utf7(name), <<"/">>, <<".">>)

(***************************************************************************)
(* Folder-Name Codec (decoding direction).  A failure of b64decode or of   *)
(* the UTF-16 decoding is the value DecodeError.                           *)
(***************************************************************************)
DecodeError == <<"<exception>">>

B64Value(c) == (CHOOSE k \in 1..64 : B64Alphabet[k] = c) - 1
IsB64Char(c) == \E k \in 1..64 : B64Alphabet[k] = c

RECURSIVE B64Sextets(_)
\* b64decode discards characters outside the alphabet
B64Sextets(chars) ==
    IF chars = <<>> THEN <<>>
    ELSE (IF IsB64Char(Head(chars)) THEN <<B64Value(Head(chars))>> ELSE <<>>)
         \o B64Sextets(Tail(chars))

RECURSIVE B64Bytes(_)
\* the bytes of a sequence of sextets whose length is not 1 modulo 4
B64Bytes(x) ==
    IF Len(x) < 2 THEN <<>>
    ELSE IF Len(x) = 2 THEN <<(x[1] * 4 + x[2] \div 16) % 256>>
    ELSE IF Len(x) = 3 THEN <<(x[1] * 4 + x[2] \div 16) % 256,
                              ((x[2] % 16) * 16 + x[3] \div 4) % 256>>
    ELSE <<(x[1] * 4 + x[2] \div 16) % 256,
           ((x[2] % 16) * 16 + x[3] \div 4) % 256,
           ((x[3] % 4) * 64 + x[4]) % 256>> \o B64Bytes(SubSeq(x, 5, Len(x)))

CharOfCode(n) ==
    IF \E c \in DOMAIN NonAsciiCode : NonAsciiCode[c] = n
    THEN CHOOSE c \in DOMAIN NonAsciiCode : NonAsciiCode[c] = n
    ELSE "U+????"

RECURSIVE Utf16BEDecode(_)
Utf16BEDecode(b) ==
    IF b = <<>> THEN <<>>
    ELSE <<CharOfCode(b[1] * 256 + b[2])>> \o Utf16BEDecode(SubSeq(b, 3, Len(b)))

\* decode_match: None when the code raises
decode_match(group) ==
    LET x == B64Sextets(Replace(group, <<",">>, <<"/">>))
        b == B64Bytes(x)
    IN  IF Len(x) % 4 = 1 \/ Len(b) % 2 = 1 THEN None ELSE Some(Utf16BEDecode(b))

RECURSIVE DecodeRuns(_)
\* re.sub(r'&([^-]+)-', decode_match, s); DecodeError when a match raises
DecodeRuns(s) ==
    IF s = <<>> THEN <<>>
    ELSE LET dashes == {k \in 3..Len(s) : s[k] = "-"}
         IN  IF Head(s) = "&" /\ Len(s) >= 3 /\ s[2] # "-" /\ dashes # {}
             THEN LET j == CHOOSE k \in dashes : \A d \in dashes : k <= d
                      m == decode_match(SubSeq(s, 2, j - 1))
                      rest == DecodeRuns(SubSeq(s, j + 1, Len(s)))
                  IN  IF m = None \/ rest = DecodeError THEN DecodeError
                      ELSE m[1] \o rest
             ELSE LET rest == DecodeRuns(Tail(s))
                  IN  IF rest = DecodeError THEN DecodeError ELSE <<Head(s)>> \o rest

decode_imap_utf7(s) == DecodeRuns(Replace(s, <<"&", "-">>, <<"&">>))

\* list_folders: every folder the server holds, decoded; the raw name when
\* decoding raises
list_folders(server_folders) ==
    {IF decode_imap_utf7(f) = DecodeError THEN f ELSE decode_imap_utf7(f) :
        f \in server_folders}

\* the name under which the server stores a folder created or addressed by
\* a wire name: a quoted wire name is a quoted string of the protocol
StoredName(wire) ==
    IF Len(wire) >= 2 /\ Head(wire) = "\"" /\ wire[Len(wire)] = "\""
    THEN SubSeq(wire, 2, Len(wire) - 1)
    ELSE wire

(***************************************************************************)
(* Dates.  A protocol date string "DD-Mon-YYYY HH:MM:SS +ZZZZ" is the      *)
(* record [wall, zone]: the wall-clock reading and the zone offset it is   *)
(* expressed in (both in hours); the instant it denotes is wall - zone.    *)
(***************************************************************************)
LocalZone == 1        \* UTC offset of the machine running the migration

Instant(date) == date.wall - date.zone

\* dateutil parser.parse(date).timestamp(), then imaplib.Time2Internaldate,
\* which renders the timestamp in the local zone
convertDate(date) == [wall |-> Instant(date) + LocalZone, zone |-> LocalZone]

\* time.strftime('%d-%b-%Y %H:%M:%S +0000', time.gmtime())
gmtime_now == [wall |-> CurrentTime, zone |-> 0]

\* list(set(flags)) joined by spaces: the flags without duplicates
convertFlags(flags) == {flags[k] : k \in 1..Len(flags)}

(***************************************************************************)
(* Attachment Extraction Engine.  A parsed message is [multipart, leaves]; *)
(* a leaf part is [filename (optional), ctype, len (payload bytes),        *)
(* headers (number of header fields: len(part))].                          *)
(***************************************************************************)
ATTACHMENT_WHITELIST == {<<".","p","d","f">>, <<".","z","i","p">>,
                         <<".","d","o","c","x">>, <<".","x","l","s","x">>}
MIN_ATTACHMENT_SIZE == 0
MAX_ATTACHMENT_SIZE == 104857600

LowerChar(c) ==
    IF \E k \in 1..26 : UpperChars[k] = c
    THEN LowerChars[CHOOSE k \in 1..26 : UpperChars[k] = c]
    ELSE c
Lower(s) == [k \in 1..Len(s) |-> LowerChar(s[k])]

RECURSIVE RStrip(_, _)
RStrip(s, chars) ==
    IF s # <<>> /\ s[Len(s)] \in chars THEN RStrip(SubSeq(s, 1, Len(s) - 1), chars) ELSE s
Whitespace == {" "}
Strip(s) == RStrip(LStrip(s, Whitespace), Whitespace)

\* filename.split('?')[0].strip()
normalize_filename(filename) ==
    IF Contains(filename, "?")
    THEN LET q == CHOOSE k \in 1..Len(filename) :
                    filename[k] = "?" /\ \A j \in 1..(k - 1) : filename[j] # "?"
         IN  Strip(SubSeq(filename, 1, q - 1))
    ELSE Strip(filename)

\* os.path.splitext(p)[1]: from the last dot of the last path component,
\* unless only dots precede it in that component
splitext_ext(p) ==
    LET seps == {k \in 1..Len(p) : p[k] = "/"}
        sep  == IF seps = {} THEN 0 ELSE CHOOSE k \in seps : \A j \in seps : j <= k
        dots == {k \in (sep + 1)..Len(p) : p[k] = "."}
        dot  == IF dots = {} THEN 0 ELSE CHOOSE k \in dots : \A j \in dots : j <= k
    IN  IF dot = 0 \/ \A k \in (sep + 1)..(dot - 1) : p[k] = "."
        THEN <<>>
        ELSE SubSeq(p, dot, Len(p))

get_normalized_extension(filename) == Lower(splitext_ext(normalize_filename(filename)))

\* variant: the two size limits included
should_extract_sizes_inclusive(part) ==
    /\ part.filename # None
    /\ get_normalized_extension(normalize_filename(part.filename[1])) \in ATTACHMENT_WHITELIST
    /\ part.len <= MAX_ATTACHMENT_SIZE
    /\ part.len >= MIN_ATTACHMENT_SIZE

should_extract_attachment(part) ==
    /\ part.filename # None
    /\ get_normalized_extension(normalize_filename(part.filename[1])) \in ATTACHMENT_WHITELIST
    /\ part.len < MAX_ATTACHMENT_SIZE
    /\ part.len > MIN_ATTACHMENT_SIZE

\* the attachment leaves save_attachment is called for
SelectedLeaves(msg) ==
    IF msg.multipart
    THEN {k \in 1..Len(msg.leaves) :
            msg.leaves[k].filename # None /\ should_extract_attachment(msg.leaves[k])}
    ELSE {}

\* the file-system commands save_attachment issues for one message:
\* os.makedirs and open(..., "wb") are both guarded by "not simulation"
save_attachment_commands(msg, simulation) ==
    IF SelectedLeaves(msg) # {} /\ ~simulation
    THEN {<<"makedirs", <<>>, <<>>>>, <<"write", <<>>, <<>>>>}
    ELSE {}

\* make_filename_safe: "file://" removed, each of < > : " / \ | ? * replaced
\* by an underscore, white space stripped at both ends
make_filename_safe(filename) ==
    LET cut == Replace(filename, <<"f","i","l","e",":","/","/">>, <<>>)
    IN  Strip([k \in 1..Len(cut) |->
                 IF cut[k] \in {"<", ">", ":", "\"", "/", "\\", "|", "?", "*"}
                 THEN "_" ELSE cut[k]])

\* hashlib.md5(filename.encode()).hexdigest()[:8]: a digest of the file
\* name alone, taken here as different for different names
hash_prefix(filename) == <<"md5(">> \o filename \o <<")">>

\* save_attachment for a part with a file name, outside simulation: the
\* storage path under EXTERNAL_STORAGE_PATH (114-123) and the data written
\* to it (127-129); the link returned is the URI of the path.  A date is
\* [year, month], what strftime("%Y_%m") reads of the parsed date.
save_attachment(part, email_date) ==
    LET filename == make_filename_safe(part.filename[1])
        month_folder == email_date.year \o <<"_">> \o email_date.month
    IN  [path |-> month_folder \o <<"/">> \o hash_prefix(filename) \o <<"_">> \o filename,
         data |-> part.len]

\* "if filename:" (177) and "if not filename:" (46, 92): None and '' are false
HasFilename(part) == part.filename # None /\ part.filename[1] # <<>>

\* the truth value of a Message object is len(part), its number of header
\* fields: "if not selected_body" (196) and "if selected_body" (200)
Truthy(part) == part # None /\ part[1].headers > 0

\* the leaves of seq at the positions idx, in order, with their positions
\* (what the loop 170-188 appends to one of its lists)
PartsAt(seq, idx) ==
    LET Nth(n) == CHOOSE k \in idx : Cardinality({j \in idx : j < k}) = n - 1
    IN  [n \in 1..Cardinality(idx) |-> [at |-> Nth(n), part |-> seq[Nth(n)]]]

\* lines 191-201: the part attached as the body, if any
select_body(body_parts) ==
    LET plain == {k \in 1..Len(body_parts) : body_parts[k].part.ctype = "text/plain"}
        first == IF plain # {}
                 THEN Some(body_parts[CHOOSE k \in plain : \A j \in plain : k <= j].part)
                 ELSE None
        selected_body == IF ~Truthy(first) /\ body_parts # <<>>
                         THEN Some(body_parts[1].part)
                         ELSE first
    IN  IF Truthy(selected_body) THEN selected_body ELSE None

\* extract_and_replace_attachments on a parsed multipart message: the parts
\* attached to new_email (body, keep_parts, then the positions of the
\* leaves whose links the synthetic text part lists, None without links)
extract_and_replace_attachments(msg) ==
    LET leaves == msg.leaves
        body_parts == {k \in 1..Len(leaves) : ~HasFilename(leaves[k])}
        keep_parts == {k \in 1..Len(leaves) :
                         HasFilename(leaves[k]) /\ ~should_extract_attachment(leaves[k])}
        attachment_links == PartsAt(leaves, {k \in 1..Len(leaves) :
                         HasFilename(leaves[k]) /\ should_extract_attachment(leaves[k])})
    IN  [body  |-> select_body(PartsAt(leaves, body_parts)),
         keep_parts |-> PartsAt(leaves, keep_parts),
         links |-> IF attachment_links # <<>>
                   THEN Some([k \in 1..Len(attachment_links) |-> attachment_links[k].at])
                   ELSE None]

(***************************************************************************)
(* Fetch responses.  msg_data is a sequence of parts; a part is            *)
(* [tuple, labels, size, flags, date, raw]: whether it is a (header,       *)
(* literal) tuple, what the regular expressions find in its text           *)
(* (optional each), and the literal of a tuple part.                       *)
(***************************************************************************)
Part(tuple, labels, size, flags, date, raw) ==
    [tuple |-> tuple, labels |-> labels, size |-> size, flags |-> flags,
     date |-> date, raw |-> raw]

\* the closing b')' that follows a literal
ClosingPart == Part(FALSE, None, None, None, None, None)

PlainBody == [multipart |-> FALSE, leaves |-> <<>>]
TextLeaf == [filename |-> None, ctype |-> "text/plain", len |-> 120, headers |-> 1]
PdfLeaf == [filename |-> Some(<<"a",".","p","d","f">>), ctype |-> "application/pdf", len |-> 5000,
            headers |-> 2]
TxtLeaf == [filename |-> Some(<<"n",".","t","x","t">>), ctype |-> "text/plain", len |-> 300,
            headers |-> 2]
PdfBody == [multipart |-> TRUE, leaves |-> <<TextLeaf, PdfLeaf>>]
MixedBody == [multipart |-> TRUE, leaves |-> <<TextLeaf, TxtLeaf, PdfLeaf>>]

\* The source folder: the message at index i is Catalogue[i % 5 + 1].
Catalogue ==
    << \* everything in the header of the literal, then the closing part
       << Part(TRUE, Some(<<sInbox>>), Some(1048576), Some(<<"\\Seen">>),
               Some([wall |-> 3, zone |-> 2]), Some(PlainBody)),
          ClosingPart >>,
       \* a message in the trash, with an attachment
       << Part(TRUE, Some(<<sGmailSlash \o sTrash>>), Some(524288), Some(<<>>),
               Some([wall |-> 4, zone |-> 0]), Some(PdfBody)),
          ClosingPart >>,
       \* flags, date and size reported after the literal
       << Part(TRUE, Some(<<sWorkReports, sStarred>>), None, None, None, Some(MixedBody)),
          Part(FALSE, None, Some(131072), Some(<<"\\Seen", "\\Flagged">>),
               Some([wall |-> 5, zone |-> 1]), None) >>,
       \* a response without a literal
       << Part(FALSE, None, Some(655360), Some(<<"\\Seen">>),
               Some([wall |-> 6, zone |-> 0]), None) >>,
       \* no labels, no internal date
       << Part(TRUE, None, Some(262144), Some(<<"\\Answered">>), None, Some(PlainBody)),
          ClosingPart >>
    >>

Mailbox(i) == Catalogue[(i % Len(Catalogue)) + 1]

\* extract_gmail_labels: the labels of the first tuple part, if its text
\* matches; parts after the first tuple part are not looked at
extract_gmail_labels(msg_data) ==
    LET tuples == {k \in 1..Len(msg_data) : msg_data[k].tuple}
    IN  IF tuples = {} THEN <<>>
        ELSE LET first == CHOOSE k \in tuples : \A j \in tuples : k <= j
             IN  IF msg_data[first].labels # None THEN msg_data[first].labels[1] ELSE <<>>

\* one iteration of "for response_part in msg_data" (migrate.py 378-400)
ParsePart(st, part, labels) ==
    [raw   |-> IF part.tuple THEN part.raw ELSE st.raw,
     size  |-> IF part.size # None THEN part.size[1] ELSE st.size,
     total |-> IF part.size # None THEN st.total + part.size[1] ELSE st.total,
     flags |-> (IF part.flags # None THEN part.flags[1] ELSE <<>>)
               \o translate_labels_to_flags(labels),
     date  |-> IF part.date # None THEN part.date ELSE Some(gmtime_now)]

RECURSIVE ParseParts(_, _, _)
ParseParts(st, msg_data, labels) ==
    IF msg_data = <<>> THEN st
    ELSE ParseParts(ParsePart(st, Head(msg_data), labels), Tail(msg_data), labels)

\* the locals after the loop, starting from
\* raw_msg, flags, internal_date, email_size = None, [], None, 0
ParseResponse(msg_data, total_size) ==
    ParseParts([raw |-> None, size |-> 0, total |-> total_size, flags |-> <<>>,
                date |-> None],
               msg_data, extract_gmail_labels(msg_data))

\* round(total_size_mb / (1024 * 1024), 2), as the integer number of
\* hundredths: the quotient is rounded half to even
RoundMB(bytes) ==
    LET q == (bytes * 100) \div 1048576
        r == (bytes * 100) % 1048576
    IN  IF r * 2 > 1048576 \/ (r * 2 = 1048576 /\ q % 2 = 1) THEN q + 1 ELSE q

(***************************************************************************)
(* Checkpoint Store.  The checkpoint file is None (absent) or holds one    *)
(* record.                                                                 *)
(***************************************************************************)
load_checkpoint(file) ==
    IF file # None
    THEN <<file[1].last_processed_index, file[1].total_size_mb, file[1].skipped>>
    ELSE <<0, 0, 0>>

save_checkpoint(index, total_size, skipped) ==
    Some([last_processed_index |-> index, total_size_mb |-> total_size,
          skipped |-> skipped])

delete_checkpoint(file) == None

\* variant: a finally clause that saves the statistics only
migrate_all_finally_keeps_file(file, index, total_size, skipped) == file

\* the finally clause of migrate_all (465-467) as far as the checkpoint goes
migrate_all_finally(file, index, total_size, skipped) ==
    save_checkpoint(index, total_size, skipped)

\* variant: the checkpoint deleted whatever the value of success
delete_unconditionally(success, file) == delete_checkpoint(file)

\* "if (success): delete_checkpoint()" (470-471)
delete_on_success(success, file) ==
    IF success THEN delete_checkpoint(file) ELSE file

(***************************************************************************)
(* Connections.                                                            *)
(***************************************************************************)
RECONNECT_INTERVAL == 2   \* config "general"/"reconnect_interval" of the modelled config.json
CHECKPOINT_INTERVAL == 100

\* variant: reconnect that does not re-select the source folder
reconnect_without_select(folder) ==
    [source |-> [state |-> "authenticated"], dest |-> [state |-> "authenticated"]]

\* reconnect(source_folder): two fresh sessions, the source folder selected
\* read-only on the new source session
reconnect(folder) ==
    [source |-> [state |-> "selected", folder |-> folder, readonly |-> TRUE],
     dest   |-> [state |-> "authenticated"]]

\* connect_imap: a fresh authenticated session
connect_imap == [state |-> "authenticated"]

Aborted == [state |-> "aborted"]

\* source_conn.select(source_folder, readonly=True) returning OK
select_readonly(folder) ==
    [state |-> "selected", folder |-> folder, readonly |-> TRUE]

source_folder == <<"\"">> \o ROOT_FOLDER \o <<"\"">>

(***************************************************************************)
(* Preparing.  The folders of the source account, and for each the         *)
(* destination map_labels_to_destination gives.                            *)
(***************************************************************************)
SourceFolders == {sINBOX, sGmail, sGmailSlash \o sTrash, sWorkReports, sMyMail}

\* the destination account starts with its inbox and an archive folder
InitialDestFolders == {sINBOX, DEFAULT_ARCHIVE_FOLDER}

\* create_folder_if_not_exists skips the inbox (241-242)
IsInbox(name) == Upper(name) = sINBOX

\* get_folder_mapping_info: the destinations marked "missing"
MissingFolders(dest_list) ==
    {d \in {map_labels_to_destination(<<src>>)[1] :
              src \in {f \in SourceFolders : map_labels_to_destination(<<f>>) # None}} :
        ~IsInbox(d) /\ d \notin dest_list}

\* a mutating command: its kind, the folder name it is about and the name
\* given to the server
Command(kind, name, wire) == <<kind, name, wire>>

\* variant: create issued without looking at the simulation flag
create_commands_ignoring_simulation(folder_name, simulation, created) ==
    IF IsInbox(folder_name) THEN {}
    ELSE IF created
         THEN {Command("create", folder_name, encode_folder(folder_name)),
               Command("subscribe", folder_name, encode_folder(folder_name))}
         ELSE {Command("create", folder_name, encode_folder(folder_name))}

\* variant: the folder name goes to the server as it is
create_commands_unencoded(folder_name, simulation, created) ==
    IF IsInbox(folder_name) \/ simulation THEN {}
    ELSE IF created
         THEN {Command("create", folder_name, folder_name),
               Command("subscribe", folder_name, folder_name)}
         ELSE {Command("create", folder_name, folder_name)}

\* create_folder_if_not_exists: the commands issued for a folder
create_commands(folder_name, simulation, created) ==
    IF IsInbox(folder_name) \/ simulation THEN {}
    ELSE IF created
         THEN {Command("create", folder_name, encode_folder(folder_name)),
               Command("subscribe", folder_name, encode_folder(folder_name))}
         ELSE {Command("create", folder_name, encode_folder(folder_name))}

VARIABLES
    pc,               \* position of the process
    simulation,       \* argument of prepare_and_migrate
    extract_enabled,  \* attachments.EXTRACT_ATTACHMENTS
    current_email, total_size_mb, skipped_emails, total_emails,  \* locals of migrate_all
    pending,          \* arguments of the append about to be issued
    checkpoint_file,  \* migration_checkpoint.json
    source_conn, dest_conn,
    dest_folders,     \* folder names the destination server holds
    issued,           \* mutating commands issued in the current run
    last_append,      \* the last append the destination answered OK
    appended,         \* per message: appends answered OK in the migration
    run_events,       \* per message: what happened to it in the current run
    completed,        \* messages 0..completed-1 have an outcome
    migration_live,   \* every run of the current migration was live
    loaded,           \* what load_checkpoint returned to the current run
    result,           \* how the last run ended
    propagated,       \* exception that reached the caller of migrate_all
    returned,         \* value migrate_all returned
    reconnects,       \* calls of reconnect() that returned in the current run
    faults,
    fn_pc, fn_args, fn_result  \* a single function under test: position, arguments, result

mvars == <<pc, simulation, extract_enabled, current_email, total_size_mb,
           skipped_emails, total_emails, pending, checkpoint_file, source_conn,
           dest_conn, dest_folders, issued, last_append, appended,
           run_events, completed, migration_live, loaded, result, propagated,
           returned, reconnects, faults>>

fnvars == <<fn_pc, fn_args, fn_result>>

vars == <<mvars, fnvars>>

Indices == 0..(NumMsgs - 1)
NoEvents == [i \in Indices |-> {}]

InitMigration ==
    /\ pc = "idle"
    /\ simulation = FALSE
    /\ extract_enabled \in BOOLEAN
    /\ current_email = 0 /\ total_size_mb = 0 /\ skipped_emails = 0
    /\ total_emails = None
    /\ pending = None
    /\ checkpoint_file = None
    /\ source_conn = [state |-> "none"] /\ dest_conn = [state |-> "none"]
    /\ dest_folders = InitialDestFolders
    /\ issued = {}
    /\ last_append = None
    /\ appended = [i \in Indices |-> 0]
    /\ run_events = NoEvents
    /\ completed = 0
    /\ migration_live = TRUE
    /\ loaded = <<0, 0, 0>>
    /\ result = "none"
    /\ propagated = "none"
    /\ returned = None
    /\ reconnects = 0
    /\ faults = 0

Init == InitMigration /\ fn_pc = "off" /\ fn_args = None /\ fn_result = None


Max(a, b) == IF a >= b THEN a ELSE b

\* positions inside the try block of migrate_all (344-457)
TryPcs == {"select", "search", "fetch", "append", "post", "force", "sleep", "reconnect"}
\* positions at a protocol command, where the library can raise
CommandPcs == {"select", "search", "fetch", "append", "force", "reconnect"}

\* a fault of a server weighs 1
Fault == faults < MaxFaults /\ faults' = faults + 1

Record(i, what) ==
    /\ run_events' = [run_events EXCEPT ![i] = @ \cup {what}]
    /\ completed' = Max(completed, i + 1)

\* control leaves migrate_all
Leave(res, prop, ret, file) ==
    /\ pc' = "idle"
    /\ result' = res
    /\ propagated' = prop
    /\ returned' = ret
    /\ checkpoint_file' = file

(***************************************************************************)
(* prepare_and_migrate                                                     *)
(***************************************************************************)
StartRun(sim) ==
    /\ pc = "idle"
    /\ pc' = "prepare"
    /\ simulation' = sim
    /\ source_conn' = connect_imap /\ dest_conn' = connect_imap
    /\ issued' = {}
    /\ run_events' = NoEvents
    /\ IF checkpoint_file = None
       THEN /\ appended' = [i \in Indices |-> 0]
            /\ completed' = 0
            /\ migration_live' = ~sim
       ELSE /\ migration_live' = (migration_live /\ ~sim)
            /\ UNCHANGED <<appended, completed>>
    /\ propagated' = "none" /\ returned' = None /\ reconnects' = 0
    /\ total_emails' = None /\ pending' = None /\ last_append' = None
    /\ current_email' = 0 /\ total_size_mb' = 0 /\ skipped_emails' = 0
    /\ loaded' = <<0, 0, 0>>
    /\ UNCHANGED <<extract_enabled, fnvars, checkpoint_file, dest_folders, result, faults>>

\* prepare(): create every missing destination folder
Prepare ==
    /\ pc = "prepare"
    /\ LET missing == MissingFolders(list_folders(dest_folders))
       IN  \E failed \in SUBSET missing :
             /\ simulation => failed = {}
             /\ faults + Cardinality(failed) <= MaxFaults
             /\ faults' = faults + Cardinality(failed)
             /\ dest_folders' =
                  IF simulation THEN dest_folders
                  ELSE dest_folders \cup {StoredName(encode_folder(d)) : d \in missing \ failed}
             /\ issued' = issued \cup
                  UNION {create_commands(d, simulation, d \notin failed) : d \in missing}
    /\ pc' = "load"
    /\ UNCHANGED <<simulation, extract_enabled, fnvars, current_email, total_size_mb,
                   skipped_emails, total_emails, pending, checkpoint_file,
                   source_conn, dest_conn, last_append, appended, run_events,
                   completed, migration_live, loaded, result, propagated,
                   returned, reconnects>>

(***************************************************************************)
(* migrate_all                                                             *)
(***************************************************************************)
LoadCheckpoint ==
    /\ pc = "load"
    /\ LET cp == load_checkpoint(checkpoint_file)
       IN  /\ current_email' = cp[1]
           /\ total_size_mb' = cp[2]
           /\ skipped_emails' = cp[3]
           /\ loaded' = cp
    /\ pc' = "select"
    /\ UNCHANGED <<simulation, extract_enabled, fnvars, total_emails, pending,
                   checkpoint_file, source_conn, dest_conn, dest_folders,
                   issued, last_append, appended, run_events, completed,
                   migration_live, result, propagated, returned, faults,
                   reconnects>>

SelectOK ==
    /\ pc = "select"
    /\ source_conn' = select_readonly(source_folder)
    /\ pc' = "search"
    /\ result' = "running"
    /\ UNCHANGED <<simulation, extract_enabled, fnvars, current_email, total_size_mb,
                   skipped_emails, total_emails, pending, checkpoint_file,
                   dest_conn, dest_folders, issued, last_append, appended,
                   run_events, completed, migration_live, loaded, propagated,
                   returned, faults, reconnects>>

\* status != 'OK': return 0, 0, 0 from inside the try block
SelectFail ==
    /\ pc = "select"
    /\ Fault
    /\ Leave("select_failed", "none", Some(<<0, 0, 0>>),
             migrate_all_finally(checkpoint_file, current_email, total_size_mb,
                                 skipped_emails))
    /\ UNCHANGED <<simulation, extract_enabled, fnvars, current_email, total_size_mb,
                   skipped_emails, total_emails, pending, source_conn,
                   dest_conn, dest_folders, issued, last_append, appended,
                   run_events, completed, migration_live, loaded, reconnects>>

SearchOK ==
    /\ pc = "search"
    /\ total_emails' = Some(NumMsgs)
    /\ pc' = "fetch"
    /\ UNCHANGED <<simulation, extract_enabled, fnvars, current_email, total_size_mb,
                   skipped_emails, pending, checkpoint_file, source_conn,
                   dest_conn, dest_folders, issued, last_append, appended,
                   run_events, completed, migration_live, loaded, result,
                   propagated, returned, faults, reconnects>>

SearchFail ==
    /\ pc = "search"
    /\ Fault
    /\ Leave("search_failed", "none", Some(<<0, 0, 0>>),
             migrate_all_finally(checkpoint_file, current_email, total_size_mb,
                                 skipped_emails))
    /\ UNCHANGED <<simulation, extract_enabled, fnvars, current_email, total_size_mb,
                   skipped_emails, total_emails, pending, source_conn,
                   dest_conn, dest_folders, issued, last_append, appended,
                   run_events, completed, migration_live, loaded, reconnects>>

\* typ != 'OK' from fetch (368-373)
FetchNotOK ==
    /\ pc = "fetch" /\ current_email < NumMsgs
    /\ Fault
    /\ skipped_emails' = skipped_emails + 1
    /\ current_email' = current_email + 1
    /\ Record(current_email, "fetch_failed")
    /\ UNCHANGED <<pc, simulation, extract_enabled, fnvars, total_size_mb, total_emails,
                   pending, checkpoint_file, source_conn, dest_conn,
                   dest_folders, issued, last_append, appended, migration_live,
                   loaded, result, propagated, returned, reconnects>>

\* fetch answered OK: parse the response, rewrite the message, map the
\* labels (375-421 and 428-430)
FetchOK ==
    /\ pc = "fetch" /\ current_email < NumMsgs
    /\ LET msg_data == Mailbox(current_email)
           labels == extract_gmail_labels(msg_data)
           st == ParseResponse(msg_data, total_size_mb)
           destination_folder == map_labels_to_destination(labels)
       IN  /\ total_size_mb' = st.total
           /\ IF st.raw = None
              THEN /\ skipped_emails' = skipped_emails + 1
                   /\ Record(current_email, "no_raw")
                   /\ pc' = "post"
                   /\ UNCHANGED <<current_email, pending, issued>>
              ELSE /\ issued' = issued \cup
                        (IF extract_enabled
                         THEN save_attachment_commands(st.raw[1], simulation)
                         ELSE {})
                   /\ IF destination_folder = None
                      THEN /\ skipped_emails' = skipped_emails + 1
                           /\ current_email' = current_email + 1
                           /\ Record(current_email, "dropped")
                           /\ UNCHANGED <<pc, pending>>
                      ELSE /\ IF simulation
                              THEN /\ pc' = "post"
                                   /\ pending' = None
                                   /\ Record(current_email, "simulated")
                              ELSE /\ pc' = "append"
                                   /\ pending' =
                                        Some([index |-> current_email,
                                              destination |-> destination_folder[1],
                                              folder |-> encode_folder(destination_folder[1]),
                                              flags |-> convertFlags(st.flags),
                                              date |-> convertDate(st.date[1])])
                                   /\ UNCHANGED <<run_events, completed>>
                           /\ UNCHANGED <<current_email, skipped_emails>>
    /\ UNCHANGED <<simulation, extract_enabled, fnvars, total_emails, checkpoint_file,
                   source_conn, dest_conn, dest_folders, last_append, appended,
                   migration_live, loaded, result, propagated, returned, faults,
                   reconnects>>

\* the destination holds the folder an append names
FolderExists(wire) == StoredName(wire) \in dest_folders

AppendOK ==
    /\ pc = "append"
    /\ FolderExists(pending[1].folder)
    /\ appended' = [appended EXCEPT ![current_email] = @ + 1]
    /\ last_append' = pending
    /\ Record(current_email, "appended")
    /\ issued' = issued \cup {Command("append", pending[1].destination, pending[1].folder)}
    /\ pending' = None
    /\ pc' = "post"
    /\ UNCHANGED <<simulation, extract_enabled, fnvars, current_email, total_size_mb,
                   skipped_emails, total_emails, checkpoint_file, source_conn,
                   dest_conn, dest_folders, migration_live, loaded, result,
                   propagated, returned, faults, reconnects>>

\* res[0] != 'OK' (425-427): always for a folder the destination lacks
AppendNotOK ==
    /\ pc = "append"
    /\ IF FolderExists(pending[1].folder) THEN Fault ELSE UNCHANGED faults
    /\ skipped_emails' = skipped_emails + 1
    /\ Record(current_email, "append_failed")
    /\ issued' = issued \cup {Command("append", pending[1].destination, pending[1].folder)}
    /\ pending' = None
    /\ pc' = "post"
    /\ UNCHANGED <<simulation, extract_enabled, fnvars, current_email, total_size_mb,
                   total_emails, checkpoint_file, source_conn, dest_conn,
                   dest_folders, last_append, appended, migration_live, loaded,
                   result, propagated, returned, reconnects>>

\* imaplib.IMAP4.abort raised by fetch: handler at 449-451
FetchAbort ==
    /\ pc = "fetch" /\ current_email < NumMsgs
    /\ Fault
    /\ source_conn' = Aborted
    /\ pc' = "reconnect"
    /\ UNCHANGED <<simulation, extract_enabled, fnvars, current_email, total_size_mb,
                   skipped_emails, total_emails, pending, checkpoint_file,
                   dest_conn, dest_folders, issued, last_append, appended,
                   run_events, completed, migration_live, loaded, result,
                   propagated, returned, reconnects>>

\* imaplib.IMAP4.abort raised by append: handler at 449-451
AppendAbort ==
    /\ pc = "append"
    /\ Fault
    /\ dest_conn' = Aborted
    /\ issued' = issued \cup {Command("append", pending[1].destination, pending[1].folder)}
    /\ pending' = None
    /\ pc' = "reconnect"
    /\ UNCHANGED <<simulation, extract_enabled, fnvars, current_email, total_size_mb,
                   skipped_emails, total_emails, checkpoint_file, source_conn,
                   dest_folders, last_append, appended, run_events, completed,
                   migration_live, loaded, result, propagated, returned,
                   reconnects>>

\* progress_bar.update(1), the periodic checkpoint (435-436) and the test
\* of the periodic reconnect (439)
Post ==
    /\ pc = "post"
    /\ checkpoint_file' =
         IF current_email % CHECKPOINT_INTERVAL = 0
         THEN save_checkpoint(current_email, total_size_mb, skipped_emails)
         ELSE checkpoint_file
    /\ pc' = IF current_email > 0 /\ current_email % RECONNECT_INTERVAL = 0
             THEN "force" ELSE "sleep"
    /\ UNCHANGED <<simulation, extract_enabled, fnvars, current_email, total_size_mb,
                   skipped_emails, total_emails, pending, source_conn,
                   dest_conn, dest_folders, issued, last_append, appended,
                   run_events, completed, migration_live, loaded, result,
                   propagated, returned, faults, reconnects>>

\* the periodic reconnect (441) succeeds
ForceReconnectOK ==
    /\ pc = "force"
    /\ source_conn' = reconnect(source_folder).source
    /\ dest_conn' = reconnect(source_folder).dest
    /\ reconnects' = reconnects + 1
    /\ pc' = "sleep"
    /\ UNCHANGED <<simulation, extract_enabled, fnvars, current_email, total_size_mb,
                   skipped_emails, total_emails, pending, checkpoint_file,
                   dest_folders, issued, last_append, appended, run_events,
                   completed, migration_live, loaded, result, propagated,
                   returned, faults>>

\* the select of the periodic reconnect (485, called from 441) raises
\* imaplib.IMAP4.abort: line 441 is inside the inner try, handler at 449-451
ForceReconnectAbort ==
    /\ pc = "force"
    /\ Fault
    /\ source_conn' = Aborted
    /\ dest_conn' = connect_imap
    /\ pc' = "reconnect"
    /\ UNCHANGED <<simulation, extract_enabled, fnvars, current_email, total_size_mb,
                   skipped_emails, total_emails, pending, checkpoint_file,
                   dest_folders, issued, last_append, appended, run_events,
                   completed, migration_live, loaded, result, propagated,
                   returned, reconnects>>

\* time.sleep(DEBUG_DELAY); current_email += 1 (445-447)
Advance ==
    /\ pc = "sleep"
    /\ current_email' = current_email + 1
    /\ pc' = "fetch"
    /\ UNCHANGED <<simulation, extract_enabled, fnvars, total_size_mb, skipped_emails,
                   total_emails, pending, checkpoint_file, source_conn,
                   dest_conn, dest_folders, issued, last_append, appended,
                   run_events, completed, migration_live, loaded, result,
                   propagated, returned, faults, reconnects>>

\* the reconnect of the abort handler (451) succeeds; the loop goes on
ReconnectOK ==
    /\ pc = "reconnect"
    /\ source_conn' = reconnect(source_folder).source
    /\ dest_conn' = reconnect(source_folder).dest
    /\ reconnects' = reconnects + 1
    /\ pc' = "fetch"
    /\ UNCHANGED <<simulation, extract_enabled, fnvars, current_email, total_size_mb,
                   skipped_emails, total_emails, pending, checkpoint_file,
                   dest_folders, issued, last_append, appended, run_events,
                   completed, migration_live, loaded, result, propagated,
                   returned, faults>>

\* reconnect_imap gives up: sys.exit(1) (209); SystemExit passes
\* "except Exception" and runs the finally clause
ReconnectExit ==
    /\ pc \in {"force", "reconnect"}
    /\ Fault
    /\ Leave("exited", "SystemExit", None,
             migrate_all_finally(checkpoint_file, current_email, total_size_mb,
                                 skipped_emails))
    /\ UNCHANGED <<simulation, extract_enabled, fnvars, current_email, total_size_mb,
                   skipped_emails, total_emails, pending, source_conn,
                   dest_conn, dest_folders, issued, last_append, appended,
                   run_events, completed, migration_live, loaded, reconnects>>

\* the library raises something that is not caught by the abort handler:
\* imaplib.IMAP4.error for a BAD answer or a rejected login, or an abort
\* raised outside the inner try (select, search, the reconnect of the
\* handler).  except Exception: save_checkpoint, raise; then finally (461-467)
UnexpectedException ==
    /\ pc \in CommandPcs
    \* an interrupt, an unexpected exception or a kill weighs 2
    /\ faults + 2 <= MaxFaults /\ faults' = faults + 2
    /\ Leave("exception", "Exception", None,
             migrate_all_finally(
                 save_checkpoint(current_email, total_size_mb, skipped_emails),
                 current_email, total_size_mb, skipped_emails))
    /\ UNCHANGED <<simulation, extract_enabled, fnvars, current_email, total_size_mb,
                   skipped_emails, total_emails, pending, source_conn,
                   dest_conn, dest_folders, issued, last_append, appended,
                   run_events, completed, migration_live, loaded, reconnects>>

\* KeyboardInterrupt inside the try block (459-460), the finally clause,
\* then lines 470-473; total_emails is unbound before line 356
KeyboardInterrupt ==
    /\ pc \in TryPcs
    \* an interrupt, an unexpected exception or a kill weighs 2
    /\ faults + 2 <= MaxFaults /\ faults' = faults + 2
    /\ Leave("interrupted",
             IF total_emails = None THEN "UnboundLocalError" ELSE "none",
             IF total_emails = None THEN None
             ELSE Some(<<total_emails[1], total_size_mb, skipped_emails>>),
             delete_on_success(FALSE,
                 migrate_all_finally(checkpoint_file, current_email,
                                     total_size_mb, skipped_emails)))
    /\ UNCHANGED <<simulation, extract_enabled, fnvars, current_email, total_size_mb,
                   skipped_emails, total_emails, pending, source_conn,
                   dest_conn, dest_folders, issued, last_append, appended,
                   run_events, completed, migration_live, loaded, reconnects>>

\* the loop condition fails (364): 453-457, the finally clause, 470-473
Complete ==
    /\ pc = "fetch" /\ current_email >= NumMsgs
    /\ total_size_mb' = RoundMB(total_size_mb)
    /\ Leave("completed", "none",
             Some(<<total_emails[1], RoundMB(total_size_mb), skipped_emails>>),
             delete_on_success(TRUE,
                 migrate_all_finally(checkpoint_file, current_email,
                                     RoundMB(total_size_mb), skipped_emails)))
    /\ UNCHANGED <<simulation, extract_enabled, fnvars, current_email, skipped_emails,
                   total_emails, pending, source_conn, dest_conn, dest_folders,
                   issued, last_append, appended, run_events, completed,
                   migration_live, loaded, faults, reconnects>>

\* the process is killed: nothing is written
Kill ==
    /\ pc # "idle"
    \* an interrupt, an unexpected exception or a kill weighs 2
    /\ faults + 2 <= MaxFaults /\ faults' = faults + 2
    /\ pc' = "idle"
    /\ result' = "killed"
    /\ source_conn' = [state |-> "none"] /\ dest_conn' = [state |-> "none"]
    /\ current_email' = 0 /\ total_size_mb' = 0 /\ skipped_emails' = 0
    /\ total_emails' = None /\ pending' = None
    /\ UNCHANGED <<simulation, extract_enabled, fnvars, checkpoint_file, dest_folders,
                   issued, last_append, appended, run_events, completed,
                   migration_live, loaded, propagated, returned, reconnects>>

Next ==
    \/ \E sim \in BOOLEAN : StartRun(sim)
    \/ Prepare
    \/ LoadCheckpoint
    \/ SelectOK
    \/ SelectFail
    \/ SearchOK
    \/ SearchFail
    \/ FetchNotOK
    \/ FetchOK
    \/ FetchAbort
    \/ AppendOK
    \/ AppendNotOK
    \/ AppendAbort
    \/ Post
    \/ ForceReconnectOK
    \/ ForceReconnectAbort
    \/ Advance
    \/ ReconnectOK
    \/ ReconnectExit
    \/ UnexpectedException
    \/ KeyboardInterrupt
    \/ Complete
    \/ Kill

Spec == Init /\ [][Next]_vars

TypeOK ==
    /\ pc \in {"idle", "prepare", "load"} \cup TryPcs
    /\ current_email \in 0..NumMsgs
    /\ skipped_emails \in Nat
    /\ faults \in 0..MaxFaults

(***************************************************************************)
(* The message loop of migrate_all (364-447) over a folder of LoopMsgs     *)
(* messages, one iteration per step.  fn_result holds current_email, the   *)
(* number of messages processed since the last save_checkpoint of the run  *)
(* (written: whether there was one) and the fetch and append failures so   *)
(* far.  Session aborts are not counted: the handler keeps no count.       *)
(***************************************************************************)
LoopInit ==
    /\ InitMigration /\ ~extract_enabled
    /\ fn_pc = "loop"
    /\ fn_args = [msg_nums |-> LoopMsgs]
    /\ fn_result = [current_email |-> 0, written |-> FALSE, since |-> 0, failures |-> 0]

\* what the response of message i leads to when fetch and append answer OK
\* (a function, so that it is computed once per message of the catalogue)
LoopOutcome ==
    [i \in 0..(LoopMsgs - 1) |->
        LET msg_data == Mailbox(i)
        IN  IF ParseResponse(msg_data, 0).raw = None THEN "no_raw"
            ELSE IF map_labels_to_destination(extract_gmail_labels(msg_data)) = None
                 THEN "dropped"
                 ELSE "append"]

\* 370-373 and 416-419: count the message and "continue"
LoopContinue(failed) ==
    fn_result' = [fn_result EXCEPT !.current_email = @ + 1,
                                   !.since = IF fn_result.written THEN @ + 1 ELSE @,
                                   !.failures = IF failed THEN @ + 1 ELSE @]

\* 432-447: the message is counted, then the checkpoint test, then
\* current_email += 1
LoopTail(failed) ==
    fn_result' =
        IF fn_result.current_email % CHECKPOINT_INTERVAL = 0
        THEN [fn_result EXCEPT !.current_email = @ + 1, !.written = TRUE, !.since = 0,
                               !.failures = IF failed THEN @ + 1 ELSE @]
        ELSE [fn_result EXCEPT !.current_email = @ + 1,
                               !.since = IF fn_result.written THEN @ + 1 ELSE @,
                               !.failures = IF failed THEN @ + 1 ELSE @]

InLoop == fn_pc = "loop" /\ fn_result.current_email < fn_args.msg_nums

LoopFetchNotOK ==
    /\ InLoop /\ fn_result.failures < MaxFaults
    /\ LoopContinue(TRUE)
    /\ UNCHANGED <<mvars, fn_pc, fn_args>>

LoopNoRaw ==
    /\ InLoop /\ LoopOutcome[fn_result.current_email] = "no_raw"
    /\ LoopTail(FALSE)
    /\ UNCHANGED <<mvars, fn_pc, fn_args>>

LoopDropped ==
    /\ InLoop /\ LoopOutcome[fn_result.current_email] = "dropped"
    /\ LoopContinue(FALSE)
    /\ UNCHANGED <<mvars, fn_pc, fn_args>>

LoopAppendOK ==
    /\ InLoop /\ LoopOutcome[fn_result.current_email] = "append"
    /\ LoopTail(FALSE)
    /\ UNCHANGED <<mvars, fn_pc, fn_args>>

LoopAppendNotOK ==
    /\ InLoop /\ LoopOutcome[fn_result.current_email] = "append"
    /\ fn_result.failures < MaxFaults
    /\ LoopTail(TRUE)
    /\ UNCHANGED <<mvars, fn_pc, fn_args>>

\* fetch or append raises imaplib.IMAP4.abort: the handler (449-451) calls
\* reconnect; current_email and the counters are as before the iteration
LoopAbort ==
    /\ InLoop
    /\ fn_pc' = "handler"
    /\ UNCHANGED <<mvars, fn_args, fn_result>>

\* reconnect returns: the loop condition is tested again (364)
LoopReconnectOK ==
    /\ fn_pc = "handler"
    /\ fn_pc' = "loop"
    /\ UNCHANGED <<mvars, fn_args, fn_result>>

\* reconnect_imap gives up: sys.exit(1) (209), the finally clause saves
\* the checkpoint
LoopReconnectExit ==
    /\ fn_pc = "handler"
    /\ fn_pc' = "exit"
    /\ fn_result' = [fn_result EXCEPT !.written = TRUE, !.since = 0]
    /\ UNCHANGED <<mvars, fn_args>>

\* the loop condition fails: the finally clause saves the checkpoint
LoopComplete ==
    /\ fn_pc = "loop" /\ fn_result.current_email >= fn_args.msg_nums
    /\ fn_pc' = "done"
    /\ fn_result' = [fn_result EXCEPT !.written = TRUE, !.since = 0]
    /\ UNCHANGED <<mvars, fn_args>>

LoopNext ==
    \/ LoopFetchNotOK
    \/ LoopNoRaw
    \/ LoopDropped
    \/ LoopAppendOK
    \/ LoopAppendNotOK
    \/ LoopAbort
    \/ LoopReconnectOK
    \/ LoopReconnectExit
    \/ LoopComplete

SpecLoop == LoopInit /\ [][LoopNext]_vars

\* the process keeps running: a step of the loop that can be taken is taken;
\* how fetch, append and the reconnects answer is up to the servers
FairSpecLoop == SpecLoop /\ WF_vars(LoopNext)

(***************************************************************************)
(* map_labels_to_destination called on a label sequence.                   *)
(***************************************************************************)
LabelPool ==
    {sGmail, sGmailInbox, <<sBackslash, "i", "n", "b", "o", "x">>,
     sGmailSlash \o sTrash, sWork, sTax, sWorkReports,
     <<"a", "/", "b">>, <<"a", "/", "b", "/", "c">>, sStarred}

LabelSeqs == UNION {[1..n -> LabelPool] : n \in 0..MaxLabels}

MapInit ==
    /\ InitMigration /\ ~extract_enabled
    /\ fn_pc = "call"
    /\ fn_args \in LabelSeqs
    /\ fn_result = None

MapLabels ==
    /\ fn_pc = "call"
    /\ fn_result' = map_labels_to_destination(fn_args)
    /\ fn_pc' = "return"
    /\ UNCHANGED <<mvars, fn_args>>

MapNext == MapLabels

SpecMap == MapInit /\ [][MapNext]_vars

(***************************************************************************)
(* reconnect_imap(server, email, password, max_retries).  fn_result holds  *)
(* the local attempt, the waits made (seconds), what every attempt met,    *)
(* and how the call ended.                                                 *)
(***************************************************************************)
RECURSIVE Pow2(_)
Pow2(k) == IF k = 0 THEN 1 ELSE 2 * Pow2(k - 1)

\* variant: the wait grows linearly
backoff_linear(attempt) == 2 * attempt

\* time.sleep(2 ** attempt)
backoff(attempt) == Pow2(attempt)

\* what "except (imaplib.IMAP4.abort, socket.error, ssl.SSLError)" catches
TransientErrors == {"IMAP4.abort", "socket.error", "ssl.SSLError"}

ReconnectImapInit ==
    /\ InitMigration /\ ~extract_enabled
    /\ fn_pc = "attempt"
    /\ fn_args \in {[max_retries |-> n] : n \in 1..MaxRetries}
    /\ fn_result = [attempt |-> 0, slept |-> <<>>, met |-> <<>>, ended |-> "no"]

InRetryLoop == fn_pc = "attempt" /\ fn_result.attempt < fn_args.max_retries

\* IMAP4_SSL and login succeed: return conn
AttemptSucceeds ==
    /\ InRetryLoop
    /\ fn_result' = [fn_result EXCEPT !.met = Append(@, "ok"), !.ended = "returned"]
    /\ fn_pc' = "done"
    /\ UNCHANGED <<mvars, fn_args>>

\* the handler at 204-207
AttemptFailsTransient ==
    /\ InRetryLoop
    /\ \E e \in TransientErrors :
          fn_result' = [fn_result EXCEPT !.met = Append(@, e),
                                         !.slept = Append(@, backoff(fn_result.attempt)),
                                         !.attempt = @ + 1]
    /\ UNCHANGED <<mvars, fn_pc, fn_args>>

\* an exception the handler does not name (imaplib.IMAP4.error of a
\* rejected login) leaves the function
AttemptFailsOther ==
    /\ InRetryLoop
    /\ fn_result' = [fn_result EXCEPT !.met = Append(@, "IMAP4.error"), !.ended = "raised"]
    /\ fn_pc' = "done"
    /\ UNCHANGED <<mvars, fn_args>>

\* the loop condition fails: sys.exit(1)
RetriesExhausted ==
    /\ fn_pc = "attempt" /\ fn_result.attempt >= fn_args.max_retries
    /\ fn_result' = [fn_result EXCEPT !.ended = "exited"]
    /\ fn_pc' = "done"
    /\ UNCHANGED <<mvars, fn_args>>

ReconnectImapNext ==
    \/ AttemptSucceeds
    \/ AttemptFailsTransient
    \/ AttemptFailsOther
    \/ RetriesExhausted

SpecReconnectImap == ReconnectImapInit /\ [][ReconnectImapNext]_vars

(***************************************************************************)
(* encode_folder applied to a folder name, then decode_imap_utf7 applied   *)
(* to the encoded name.                                                    *)
(***************************************************************************)
NameChars == {"a", "B", " ", "/", ".", "U+00E9", "U+00FC", "U+20AC", "U+1F600"}

FolderNames == UNION {[1..n -> NameChars] : n \in 0..MaxNameLen}

CodecInit ==
    /\ InitMigration /\ ~extract_enabled
    /\ fn_pc = "call"
    /\ fn_args \in FolderNames
    /\ fn_result = None

EncodeFolder ==
    /\ fn_pc = "call"
    /\ fn_result' = [wire |-> encode_folder(fn_args), name |-> None]
    /\ fn_pc' = "encoded"
    /\ UNCHANGED <<mvars, fn_args>>

DecodeEncoded ==
    /\ fn_pc = "encoded"
    /\ fn_result' = [fn_result EXCEPT !.name = Some(decode_imap_utf7(fn_result.wire))]
    /\ fn_pc' = "decoded"
    /\ UNCHANGED <<mvars, fn_args>>

CodecNext ==
    \/ EncodeFolder
    \/ DecodeEncoded

SpecCodec == CodecInit /\ [][CodecNext]_vars

(***************************************************************************)
(* extract_and_replace_attachments called on one message.  fn_result is    *)
(* <<"raw_msg", msg>> for the message returned as it came (155) and        *)
(* <<"new_email", parts>> for a rebuilt one (210).                         *)
(***************************************************************************)
PartPool ==
    {[filename |-> None, ctype |-> c, len |-> 120, headers |-> h] :
        <<c, h>> \in {<<"text/plain", 1>>, <<"text/html", 1>>, <<"text/plain", 0>>}}
    \cup
    {[filename |-> Some(n), ctype |-> "application/octet-stream", len |-> l,
      headers |-> 2] :
        n \in {<<"a",".","p","d","f">>, <<"A",".","P","D","F","?","=">>,
               <<"n",".","t","x","t","?",".","p","d","f">>, <<".","p","d","f">>},
        l \in {MIN_ATTACHMENT_SIZE, MIN_ATTACHMENT_SIZE + 1,
               MAX_ATTACHMENT_SIZE - 1, MAX_ATTACHMENT_SIZE}}

AttachInit ==
    /\ InitMigration /\ ~extract_enabled
    /\ fn_pc = "msg"
    /\ fn_args \in {PlainBody} \cup
                   {[multipart |-> TRUE, leaves |-> l] :
                      l \in UNION {[1..n -> PartPool] : n \in 1..MaxParts}}
    /\ fn_result = None

ExtractAndReplace ==
    /\ fn_pc = "msg"
    /\ fn_pc' = "returned"
    /\ fn_result' = IF fn_args.multipart
                    THEN <<"new_email", extract_and_replace_attachments(fn_args)>>
                    ELSE <<"raw_msg", fn_args>>
    /\ UNCHANGED <<mvars, fn_args>>

SpecAttach == AttachInit /\ [][ExtractAndReplace]_vars

(***************************************************************************)
(* save_attachment called, one selected attachment after the other, on the *)
(* same external storage.  fn_args counts the calls; fn_result holds the   *)
(* files of the storage (path and data) and, for every link returned, the  *)
(* path it names and the payload it replaced.  Payloads are told apart by  *)
(* their length.                                                           *)
(***************************************************************************)
StoreInit ==
    /\ InitMigration /\ ~extract_enabled
    /\ fn_pc = "store"
    /\ fn_args = 0
    /\ fn_result = [files |-> {}, links |-> {}]

SaveAttachment ==
    /\ fn_pc = "store"
    /\ fn_args < MaxSaves
    /\ \E n \in {<<"a",".","p","d","f">>, <<"a",":","b",".","p","d","f">>,
                 <<"a","/","b",".","p","d","f">>,
                 <<"f","i","l","e",":","/","/","a",".","p","d","f">>},
          l \in {10, 20},
          m \in {<<"0","1">>, <<"0","2">>} :
         LET part == [filename |-> Some(n), ctype |-> "application/pdf", len |-> l,
                      headers |-> 2]
             saved == save_attachment(part, [year |-> <<"2","0","2","5">>, month |-> m])
         IN  fn_result' =
               [files |-> {f \in fn_result.files : f.path # saved.path} \cup {saved},
                links |-> fn_result.links \cup {saved}]
    /\ fn_args' = fn_args + 1
    /\ UNCHANGED <<mvars, fn_pc>>

SpecStore == StoreInit /\ [][SaveAttachment]_vars

(***************************************************************************)
(* Properties.                                                             *)
(***************************************************************************)
SkipCauses == {"fetch_failed", "no_raw", "dropped", "append_failed"}

\* C1: in a live migration (a run and the runs resumed from its
\* checkpoint) no message is appended with answer OK more than once.
C1_NoSecondAppend ==
    migration_live => \A i \in Indices : appended[i] <= 1

\* C2: after a run ended by keyboard interrupt or unexpected exception with
\* messages 0..k-1 completed, the checkpoint holds k and the counts of the
\* ended run, and the next run starts its loop at index k with those counts.
C2_ResumeAtCompleted ==
    (migration_live /\ result \in {"interrupted", "exception"}) =>
        /\ pc = "idle" =>
             checkpoint_file = Some([last_processed_index |-> completed,
                                     total_size_mb |-> total_size_mb,
                                     skipped |-> skipped_emails])
        /\ pc = "select" =>
             /\ current_email = completed
             /\ checkpoint_file # None
             /\ total_size_mb = checkpoint_file[1].total_size_mb
             /\ skipped_emails = checkpoint_file[1].skipped

\* C3: a checkpoint with index i is written in a state where message i has
\* neither been appended nor been given a skip outcome.
C3_CheckpointExcludesCurrent ==
    (migration_live /\ checkpoint_file # None
       /\ checkpoint_file[1].last_processed_index \in Indices) =>
        /\ appended[checkpoint_file[1].last_processed_index] = 0
        /\ completed <= checkpoint_file[1].last_processed_index

C5_CheckpointOnEveryExit ==
    (pc = "idle" /\ result \in {"interrupted", "exception", "exited",
                                "select_failed", "search_failed"}) =>
        /\ checkpoint_file = Some([last_processed_index |-> current_email,
                                   total_size_mb |-> total_size_mb,
                                   skipped |-> skipped_emails])
        /\ result = "exception" => propagated = "Exception"
        /\ result = "exited" => propagated = "SystemExit"

C5_Witness ==
    /\ pc = "idle" /\ result = "exception" /\ propagated = "Exception"
    /\ current_email > 0
    /\ checkpoint_file # None
    /\ checkpoint_file[1].last_processed_index = current_email

\* C6: the checkpoint file is removed only by a run whose loop reached the
\* end of the enumerated range, and after such a run no checkpoint remains.
C6_DeletedIffCompleted ==
    /\ [](pc = "idle" /\ result = "completed" => checkpoint_file = None)
    /\ [][(checkpoint_file # None /\ checkpoint_file' = None) =>
             (pc = "fetch" /\ current_email >= NumMsgs /\ result' = "completed")]_vars
    /\ [](pc = "idle" /\ loaded[1] > 0
             /\ result \in {"interrupted", "exception", "exited", "select_failed",
                            "search_failed"}
          => checkpoint_file # None)

\* a resumed run (it loaded an index above 0) completed: no checkpoint left
C6_Witness ==
    /\ pc = "idle" /\ result = "completed" /\ loaded[1] > 0
    /\ checkpoint_file = None

\* C7: a fetch or an append that fails other than by a session abort does
\* not end the run and adds exactly one to the skip count, and a message
\* whose fetch or append failed is not attempted again in the run.
C7_FailureIsSkipped ==
    /\ [][(/\ pc \in {"fetch", "append"} /\ pc' # "reconnect"
            /\ (faults' = faults + 1 \/ result' = "exception")) =>
             (pc' # "idle" /\ skipped_emails' = skipped_emails + 1)]_vars
    /\ [](pc = "append" =>
             run_events[current_email] \cap {"fetch_failed", "append_failed"} = {})

\* C8: after a live run that starts at index 0 without earlier progress
\* and completes, the returned skip count is the number of messages with a
\* skip cause and every other message was appended.
C8_SkipCountExact ==
    (pc = "idle" /\ result = "completed" /\ ~simulation
       /\ loaded = <<0, 0, 0>>) =>
        LET skipped_set == {i \in Indices : run_events[i] \cap SkipCauses # {}}
        IN  /\ returned[1][3] = Cardinality(skipped_set)
            /\ \A i \in Indices \ skipped_set :
                  /\ "appended" \in run_events[i]
                  /\ appended[i] >= 1

\* C9: a run with simulation=true issues no create, subscribe, append,
\* makedirs or file write.
C9_SimulationIssuesNothing ==
    simulation => issued = {}

\* a simulation run with extraction enabled went through Preparing, through
\* every message and through a reconnect
C9_Witness ==
    /\ simulation /\ extract_enabled /\ pc = "idle" /\ result = "completed"
    /\ reconnects > 0
    /\ \E i \in Indices : "simulated" \in run_events[i]

\* C10: the date of an append denotes the instant of the internal date the
\* fetch response carries; the current time only when no part carries one.
C10_InternalDatePreserved ==
    last_append # None =>
        LET msg_data == Mailbox(last_append[1].index)
            dates == {msg_data[k].date[1] : k \in {j \in 1..Len(msg_data) :
                                                     msg_data[j].date # None}}
        IN  IF dates # {}
            THEN \E d \in dates : Instant(last_append[1].date) = Instant(d)
            ELSE Instant(last_append[1].date) = CurrentTime

\* C11: the flags of every append the destination accepted are the union
\* of the flags reported in any part of the message's fetch response and of
\* the flags derived from its labels (\Flagged for a flag-worthy label),
\* whatever the number and order of the parts
C11_FlagsAreUnion ==
    last_append # None =>
        LET msg_data == Mailbox(last_append[1].index)
            reported == UNION {convertFlags(msg_data[k].flags[1]) :
                                 k \in {j \in 1..Len(msg_data) : msg_data[j].flags # None}}
            derived == convertFlags(translate_labels_to_flags(extract_gmail_labels(msg_data)))
        IN  last_append[1].flags = reported \cup derived

\* C12: in a run, no more than 100 messages are processed after a
\* checkpoint write without the next checkpoint write, whichever way each
\* message ends
C12_CheckpointEvery100 ==
    fn_pc = "loop" => fn_result.since <= CHECKPOINT_INTERVAL

\* what the claims about map_labels_to_destination speak of, for the label
\* sequence the function was called with
Cleaned(k) == clean_gmail_label(fn_args[k])
RootRule == \E k \in 1..Len(fn_args) : fn_args[k] = sGmail
InboxRule ==
    \E k \in 1..Len(fn_args) : fn_args[k] = sGmailInbox \/ Upper(Cleaned(k)) = sINBOX
IsKey(k) == Cleaned(k) \in DOMAIN FOLDER_MAPPING
NullKey(k) == IsKey(k) /\ FOLDER_MAPPING[Cleaned(k)] = None
FolderKey(k) == IsKey(k) /\ FOLDER_MAPPING[Cleaned(k)] # None
Depth(k) == Count(Cleaned(k), "/")

\* C13: without root and inbox rule and with several labels that are keys
\* of the table, the result is the table value of the first label in
\* input order whose value is not null
C13_FirstNonNullHit ==
    (/\ fn_pc = "return" /\ ~RootRule /\ ~InboxRule
     /\ Cardinality({k \in 1..Len(fn_args) : IsKey(k)}) >= 2
     /\ \E k \in 1..Len(fn_args) : FolderKey(k)) =>
        \E k \in 1..Len(fn_args) :
            /\ FolderKey(k)
            /\ \A j \in 1..(k - 1) : ~FolderKey(j)
            /\ fn_result = FOLDER_MAPPING[Cleaned(k)]

C16_DeepestLabel ==
    (/\ fn_pc = "return" /\ ~RootRule /\ ~InboxRule
     /\ \A k \in 1..Len(fn_args) : ~IsKey(k)) =>
        IF fn_args = <<>> THEN fn_result = Some(DEFAULT_ARCHIVE_FOLDER)
        ELSE \E k \in 1..Len(fn_args) :
               /\ \A j \in 1..Len(fn_args) : Depth(j) <= Depth(k)
               /\ \A j \in 1..(k - 1) : Depth(j) < Depth(k)
               /\ fn_result = Some(FOLDER_PREFIX \o
                                   [i \in 1..Len(Cleaned(k)) |->
                                      IF Cleaned(k)[i] = "/" THEN "." ELSE Cleaned(k)[i]])

\* two different labels tie for the greatest depth
C16_Witness ==
    /\ fn_pc = "return" /\ ~RootRule /\ ~InboxRule
    /\ Len(fn_args) = 3 /\ Depth(1) = 0 /\ Depth(2) = 1 /\ Depth(3) = 1
    /\ Cleaned(2) # Cleaned(3)
    /\ \A k \in 1..3 : ~IsKey(k)
    /\ fn_result # None

FolderCommands == {c \in issued : c[1] \in {"create", "subscribe", "append"}}

\* C17 as stated: the name given to every create, subscribe, append and
\* select (in migrate_all and in reconnect) is encode_folder of the folder
\* name
C17_EveryNameEncoded ==
    /\ \A c \in FolderCommands : c[3] = encode_folder(c[2])
    /\ source_conn.state = "selected" => source_conn.folder = encode_folder(ROOT_FOLDER)

\* C17 amended: the name given to every create, subscribe and append is
\* encode_folder of the folder name; the name given to select, in
\* migrate_all and in reconnect, is the root folder in double quotes
C17_DestinationNamesEncoded ==
    /\ \A c \in FolderCommands : c[3] = encode_folder(c[2])
    /\ source_conn.state = "selected" =>
           source_conn.folder = <<"\"">> \o ROOT_FOLDER \o <<"\"">>

\* a create, a subscribe and an append were issued, one of them for a name
\* the codec changes, and the source folder was selected again by reconnect
C17_Witness ==
    /\ {c[1] : c \in FolderCommands} = {"create", "subscribe", "append"}
    /\ \E c \in FolderCommands : c[3] # c[2]
    /\ reconnects > 0 /\ source_conn.state = "selected"

\* C18: reconnect_imap makes at most max_retries attempts; the wait after
\* the failure of attempt k with a session-abort, socket or TLS error is
\* 2^k seconds; it returns at the first attempt that succeeds, ends the
\* process once max_retries attempts have failed, and makes no attempt
\* after a failure of another kind
C18_ReconnectBackoff ==
    fn_pc \in {"attempt", "done"} =>
        LET met == fn_result.met
            n == Len(met)
            failed == {k \in 1..n : met[k] \in TransientErrors}
        IN  /\ n <= fn_args.max_retries
            /\ \A k \in 1..(n - 1) : k \in failed
            /\ Len(fn_result.slept) = Cardinality(failed)
            /\ \A k \in failed :
                  fn_result.slept[k] = IF k = 1 THEN 1 ELSE 2 * fn_result.slept[k - 1]
            /\ fn_result.ended = "returned" <=> (n > 0 /\ met[n] = "ok")
            /\ fn_result.ended = "raised" <=> (n > 0 /\ met[n] = "IMAP4.error")
            /\ fn_result.ended = "exited" =>
                  (n = fn_args.max_retries /\ failed = 1..n)
            /\ (fn_pc = "done" /\ failed = 1..n) => fn_result.ended = "exited"
            /\ (fn_pc = "attempt" /\ n = fn_args.max_retries) =>
                  (failed = 1..n /\ ~ENABLED AttemptSucceeds
                   /\ ~ENABLED AttemptFailsTransient)

\* the fourth attempt succeeds after waits of 1, 2 and 4 seconds
C18_Witness ==
    /\ fn_pc = "done" /\ fn_result.ended = "returned"
    /\ fn_args.max_retries = 5
    /\ fn_result.slept = <<1, 2, 4>>
    /\ fn_result.met[1] # fn_result.met[2]

\* C19: a run ended by a keyboard interrupt, wherever in migrate_all it
\* arrived, has saved the checkpoint and returned a value: no exception
\* reached the caller
C19_InterruptReturnsNormally ==
    (pc = "idle" /\ result = "interrupted") =>
        /\ propagated = "none"
        /\ returned # None
        /\ checkpoint_file = Some([last_processed_index |-> current_email,
                                   total_size_mb |-> total_size_mb,
                                   skipped |-> skipped_emails])

\* the folder name with every "/" replaced by "."
Normalized == [i \in 1..Len(fn_args) |-> IF fn_args[i] = "/" THEN "." ELSE fn_args[i]]

\* C20 as stated: for a folder name without the shift-marker characters,
\* with spaces or non-ASCII characters or not, decoding the encoded name
\* gives the name with every "/" replaced by "."
C20_CodecRoundTrip ==
    fn_pc = "decoded" => fn_result.name = Some(Normalized)

\* C20 amended: decoding the encoded name gives the name with every "/"
\* replaced by ".", enclosed in double quotes when the name holds a space
\* or a character above U+FFFF
C20_RoundTripUpToQuotes ==
    fn_pc = "decoded" =>
        IF \E i \in 1..Len(fn_args) : fn_args[i] = " " \/ fn_args[i] \in AstralChars
        THEN fn_result.name = Some(<<"\"">> \o Normalized \o <<"\"">>)
        ELSE fn_result.name = Some(Normalized)

\* a name with a non-ASCII character, a separator and a space
C20_Witness ==
    /\ fn_pc = "decoded"
    /\ fn_args = <<"U+20AC", "/", " ">>
    /\ fn_result.wire # fn_args
    /\ fn_result.name = Some(<<"\"", "U+20AC", ".", " ", "\"">>)

\* C21: for a multi-part message the rebuilt message holds, in this order,
\* at most one body part (the first text/plain leaf without filename, else
\* the first leaf without filename), every attachment part that was not
\* selected, unchanged and in original order, and, exactly when an
\* attachment was selected, one text part with one link per selected
\* attachment: each attachment part is represented by itself or by one
\* link, never by both and never by neither.
C21_RebuiltMessage ==
    (fn_pc = "returned" /\ fn_args.multipart) =>
      LET leaves == fn_args.leaves
          new_email == fn_result[2]
          bodies == {k \in 1..Len(leaves) : leaves[k].filename = None}
          plain == {k \in bodies : leaves[k].ctype = "text/plain"}
          First(set) == CHOOSE k \in set : \A j \in set : k <= j
          kept == {new_email.keep_parts[k].at : k \in 1..Len(new_email.keep_parts)}
          linked == IF new_email.links = None THEN {}
                    ELSE {new_email.links[1][k] : k \in 1..Len(new_email.links[1])}
      IN  /\ new_email.body =
                IF plain # {} THEN Some(leaves[First(plain)])
                ELSE IF bodies # {} THEN Some(leaves[First(bodies)])
                ELSE None
          /\ \A k \in 1..Len(new_email.keep_parts) :
                /\ new_email.keep_parts[k].part = leaves[new_email.keep_parts[k].at]
                /\ \A j \in 1..(k - 1) :
                      new_email.keep_parts[j].at < new_email.keep_parts[k].at
          /\ kept \cup linked = (1..Len(leaves)) \ bodies
          /\ kept \cap linked = {}
          /\ (new_email.links # None) <=> (linked # {})
          /\ new_email.links # None => Len(new_email.links[1]) = Cardinality(linked)

\* C22: an attachment part is selected for extraction exactly when its
\* normalized lower-case extension (text after a '?' removed) is in the
\* whitelist and min_size < payload length < max_size, both strict: a
\* payload of exactly min_size or max_size bytes is never selected, one of
\* min_size + 1 bytes with a whitelisted extension is.
C22_SelectedExactlyWhen ==
    (fn_pc = "returned" /\ fn_args.multipart) =>
      LET leaves == fn_args.leaves
          new_email == fn_result[2]
          linked == IF new_email.links = None THEN {}
                    ELSE {new_email.links[1][k] : k \in 1..Len(new_email.links[1])}
          \* the extension of each file name the parts carry
          Extension == (<<"a",".","p","d","f">> :> <<".","p","d","f">>)
                    @@ (<<"A",".","P","D","F","?","=">> :> <<".","p","d","f">>)
                    @@ (<<"n",".","t","x","t","?",".","p","d","f">> :> <<".","t","x","t">>)
                    @@ (<<".","p","d","f">> :> <<>>)
      IN  \A k \in 1..Len(leaves) :
            leaves[k].filename # None =>
              (k \in linked <=>
                 /\ Extension[leaves[k].filename[1]] \in ATTACHMENT_WHITELIST
                 /\ MIN_ATTACHMENT_SIZE < leaves[k].len
                 /\ leaves[k].len < MAX_ATTACHMENT_SIZE)

\* C22: a whitelisted part of min_size + 1 bytes was selected, the parts of
\* exactly max_size and exactly min_size bytes were kept
C22_Witness ==
    /\ fn_pc = "returned"
    /\ fn_args.multipart
    /\ Len(fn_args.leaves) = 3
    /\ fn_args.leaves[1].filename = Some(<<"A",".","P","D","F","?","=">>)
    /\ fn_args.leaves[1].len = MIN_ATTACHMENT_SIZE + 1
    /\ fn_args.leaves[2].filename = Some(<<"a",".","p","d","f">>)
    /\ fn_args.leaves[2].len = MAX_ATTACHMENT_SIZE
    /\ fn_args.leaves[3].filename = Some(<<"a",".","p","d","f">>)
    /\ fn_args.leaves[3].len = MIN_ATTACHMENT_SIZE
    /\ fn_result[2].links = Some(<<1>>)
    /\ Len(fn_result[2].keep_parts) = 2

\* C23: the size migrate_all returns is the cumulative byte count divided
\* by 1,048,576, on runs that complete and on runs ended by a keyboard
\* interrupt, resumed or not.  RoundMB counts hundredths of a mebibyte; a
\* returned number that was not divided stands for that many mebibytes.
C23_SizeInMebibytes ==
    [][(/\ pc # "idle" /\ pc' = "idle"
        /\ result' \in {"completed", "interrupted"}
        /\ returned' # None) =>
         (IF result' = "completed"
          THEN returned'[1][2]
          ELSE 100 * returned'[1][2]) = RoundMB(total_size_mb)]_vars

\* C24: a run with simulation=true leaves the persisted checkpoint as it
\* found it: no step of a simulation run writes or deletes the file, so a
\* live run started afterwards starts at the index it would have started
\* at without the simulation.
C24_SimulationKeepsCheckpoint ==
    [][(simulation /\ pc # "idle") => checkpoint_file' = checkpoint_file]_vars

\* C25: in a live run every folder that receives an append was in the
\* destination's folder list or was created during Preparing: the folder
\* named by every append command issued exists on the destination.
C25_AppendTargetsExist ==
    \A c \in issued : c[1] = "append" => StoredName(c[3]) \in dest_folders

\* the sizes the source reports for the messages i..j whose fetch was
\* answered OK in the current run, each message once
RECURSIVE FetchedSizes(_, _)
FetchedSizes(i, j) ==
    IF i > j THEN 0
    ELSE (IF "fetch_failed" \in run_events[i] THEN 0
          ELSE ParseResponse(Mailbox(i), 0).total)
         + FetchedSizes(i + 1, j)

\* C26: the cumulative byte count equals the count loaded from the
\* checkpoint plus the sizes of the distinct messages fetched successfully
\* since; stated where an iteration of the loop has ended: a message
\* fetched again after a session abort contributes its size once.
C26_BytesCountedOnce ==
    pc = "sleep" =>
      total_size_mb = loaded[2] + FetchedSizes(loaded[1], current_email)

\* C27: in a live run with attachment extraction enabled an attachment
\* file is written only for a message that is then appended: the step
\* that writes a file goes on to the append of the message, it does not
\* drop the message for a null destination.
C27_FileOnlyForAppended ==
    [][(Command("write", <<>>, <<>>) \in issued' \ issued) => pc' = "append"]_vars

\* C28: no attachment file on external storage is overwritten by a later
\* extraction: two selected attachments with different payloads are written
\* to different paths, so every link returned keeps naming a file that
\* holds the payload the link replaced.
C28_NoOverwrite ==
    fn_pc = "store" => \A link \in fn_result.links : link \in fn_result.files

\* C29: for a finite enumerated range the per-message loop of migrate_all
\* terminates (it completes, or the run ends with an error or a process
\* exit), even when session aborts recur on the same message while the
\* reconnects keep succeeding.
C29_LoopTerminates == <>(fn_pc \in {"done", "exit"})

====
